---- MODULE Spec2Model ----
(***************************************************************************)
(* A model of the LS-8 emulator of src/ls8/cpu.py: the CPU object          *)
(* (registers, int_registers, ram), CPU.load, and one action per           *)
(* iteration of the loop of CPU.run, split by the handler the fetched      *)
(* opcode dispatches to.  Python's list indexing is modelled as it is:     *)
(* an index i of a list of length n is accepted iff -n <= i < n, a         *)
(* negative one counting from the end, and anything else raises            *)
(* IndexError.  Python integers are unbounded, so nothing is reduced       *)
(* modulo 256 unless the code does it.                                     *)
(***************************************************************************)
EXTENDS Integers, Sequences, FiniteSets, TLC

VARIABLES registers, int_registers, ram, output, status, err, hist

vars == <<registers, int_registers, ram, output, status, err, hist>>

(* ------------------------------ opcodes ------------------------------- *)
HLT == 1
LDI == 130
PRN == 71
NOP == 0
PUSH == 69
POP == 70
CALL == 80
RET == 17
JMP == 84
JEQ == 85
JNE == 86
MUL == 162
ADD == 160
CMP == 167

(* ------------------------------- flags -------------------------------- *)
EQUAL == 1
LESSTHAN == 4
GREATERTHAN == 2

(* ------------------------- sizes set by __init__ ---------------------- *)
NumRegisters == 8
RamSize == 256
SPInit == 244

(* The length of the window of executed instructions kept in hist. *)
HistLen == 9

(* --------------------------- Python indexing -------------------------- *)
RamOK(i) == i >= -RamSize /\ i < RamSize
RamIdx(i) == IF i < 0 THEN i + RamSize ELSE i
RegOK(i) == i >= -NumRegisters /\ i < NumRegisters
RegIdx(i) == IF i < 0 THEN i + NumRegisters ELSE i

(* ------------------------- register properties ------------------------ *)
pc == int_registers[0]
ir == int_registers[1]
fl == int_registers[4]
sp == registers[7]

ram_read(mar) == ram[RamIdx(mar)]

(* ram_write called with the address first. *)
ram_write_swapped(mdr, mar) ==
    IF RamOK(mdr) THEN [ram EXCEPT ![RamIdx(mdr)] = mar] ELSE ram

ram_write(mdr, mar) == [ram EXCEPT ![RamIdx(mar)] = mdr]

(* self.sp -= 1 of push and call, self.sp += 1 of pop and ret. *)
sp_dec(s) == s - 1

(* A pop that leaves the stack pointer where it was. *)
sp_inc_forgotten(s) == s

sp_inc(s) == s + 1

(* The keys of self.dispatch. *)
dispatch == {NOP, LDI, PRN, MUL, ADD, PUSH, POP, CALL, RET, CMP, JMP, JEQ, JNE}

(* ------------------------- print(int) as text ------------------------- *)
Digit(d) == CASE d = 0 -> "0" [] d = 1 -> "1" [] d = 2 -> "2" [] d = 3 -> "3"
              [] d = 4 -> "4" [] d = 5 -> "5" [] d = 6 -> "6" [] d = 7 -> "7"
              [] d = 8 -> "8" [] d = 9 -> "9"

RECURSIVE NatStr(_)
NatStr(n) == IF n < 10 THEN <<Digit(n)>>
             ELSE Append(NatStr(n \div 10), Digit(n % 10))

(* str(n) of a Python int: the characters of its decimal representation. *)
Str(n) == IF n < 0 THEN <<"-">> \o NatStr(-n) ELSE NatStr(n)

(* ---------------------------------------------------------------------- *)
(* The construction of the CPU and the loading of a program.              *)
(* ---------------------------------------------------------------------- *)
Init ==
    /\ registers = [i \in 0..(NumRegisters - 1) |-> IF i = 7 THEN SPInit ELSE 0]
    /\ int_registers = [i \in 0..4 |-> 0]
    /\ ram = [i \in 0..(RamSize - 1) |-> 0]
    /\ output = <<>>
    /\ status = "constructed"
    /\ err = "none"
    /\ hist = <<>>

(* A load whose address starts at 1. *)
LoadedFromOne(program, n) ==
    [i \in 0..(RamSize - 1) |-> IF i >= 1 /\ i <= n THEN program[i] ELSE ram[i]]

(* ram after the loop of load has stored the first n bytes of program. *)
Loaded(program, n) ==
    [i \in 0..(RamSize - 1) |-> IF i < n THEN program[i + 1] ELSE ram[i]]

(* load(program), then the call of run(): the loop of load raises         *)
(* IndexError at the first address that is no index of ram, with the      *)
(* bytes before it stored.                                                *)
load(program) ==
    /\ status = "constructed"
    /\ IF Len(program) <= RamSize
       THEN /\ ram' = Loaded(program, Len(program))
            /\ status' = "running"
            /\ err' = "none"
       ELSE /\ ram' = Loaded(program, RamSize)
            /\ status' = "error"
            /\ err' = "IndexError"
    /\ UNCHANGED <<registers, int_registers, output, hist>>

(* ---------------------------------------------------------------------- *)
(* One iteration of the loop of run().                                    *)
(* ---------------------------------------------------------------------- *)
FetchOK == RamOK(pc) /\ RamOK(pc + 1) /\ RamOK(pc + 2)
opcode == ram_read(pc)
operand_a == ram_read(pc + 1)
operand_b == ram_read(pc + 2)

(* The instruction being executed and the state it started from, kept     *)
(* for the last HistLen instructions.                                     *)
Entry == [pc |-> pc, op |-> opcode, a |-> operand_a, b |-> operand_b,
          regs |-> registers, fl |-> fl]

Record == IF Len(hist) < HistLen THEN Append(hist, Entry)
          ELSE Append(Tail(hist), Entry)

(* prn printing its operand instead of the register the operand names. *)
PrintedOperand(r) == r

(* What prn hands to print. *)
Printed(r) == registers[RegIdx(r)]

(* The address of the operand of CALL instead of the one after it. *)
ReturnAddressShort == pc + 1

(* The return address call stores. *)
ReturnAddress == pc + 2

(* The tests of jeq and jne. *)
JeqTaken == fl = EQUAL

(* jne testing for one of the two other flags, not for EQUAL being clear. *)
JneTakenOnOrder == fl \in {LESSTHAN, GREATERTHAN}

JneTaken == fl # EQUAL

(* The handler run on a local copy of the opcode, self.ir never set. *)
IntRegsStaleIr(newpc, newfl) ==
    [int_registers EXCEPT ![0] = newpc, ![4] = newfl]

(* int_registers once the handler has run: ir was set by the fetch. *)
IntRegs(newpc, newfl) ==
    [int_registers EXCEPT ![0] = newpc, ![1] = opcode, ![4] = newfl]

Fetched(op) ==
    /\ status = "running"
    /\ FetchOK
    /\ opcode = op
    /\ hist' = Record

Raise(e) == status' = "error" /\ err' = e

Continue == UNCHANGED <<status, err>>

(* ram_read(pc), ram_read(pc + 1) or ram_read(pc + 2) raises IndexError;  *)
(* ir is assigned before the operands are read.                           *)
FetchError ==
    /\ status = "running"
    /\ ~FetchOK
    /\ int_registers' = IF RamOK(pc) THEN [int_registers EXCEPT ![1] = opcode]
                        ELSE int_registers
    /\ Raise("IndexError")
    /\ UNCHANGED <<registers, ram, output, hist>>

(* A halt that counts the HLT byte as executed. *)
HltAdvance ==
    /\ Fetched(HLT)
    /\ int_registers' = IntRegs(pc + 1, fl)
    /\ status' = "halted"
    /\ UNCHANGED <<registers, ram, output, err>>

hlt ==
    /\ Fetched(HLT)
    /\ int_registers' = IntRegs(pc, fl)
    /\ status' = "halted"
    /\ UNCHANGED <<registers, ram, output, err>>

(* An unknown opcode looked up with a default, and treated as a NOP. *)
DecodeSkip ==
    /\ status = "running"
    /\ FetchOK
    /\ opcode \notin dispatch \cup {HLT}
    /\ hist' = Record
    /\ int_registers' = IntRegs(pc + 1, fl)
    /\ Continue
    /\ UNCHANGED <<registers, ram, output>>

(* self.dispatch[self.ir] raises KeyError. *)
DecodeError ==
    /\ status = "running"
    /\ FetchOK
    /\ opcode \notin dispatch \cup {HLT}
    /\ hist' = Record
    /\ int_registers' = IntRegs(pc, fl)
    /\ Raise("KeyError")
    /\ UNCHANGED <<registers, ram, output>>

nop ==
    /\ Fetched(NOP)
    /\ int_registers' = IntRegs(pc + 1, fl)
    /\ Continue
    /\ UNCHANGED <<registers, ram, output>>

ldi ==
    /\ Fetched(LDI)
    /\ IF RegOK(operand_a)
       THEN /\ registers' = [registers EXCEPT ![RegIdx(operand_a)] = operand_b]
            /\ int_registers' = IntRegs(pc + 3, fl)
            /\ Continue
       ELSE /\ registers' = registers
            /\ int_registers' = IntRegs(pc, fl)
            /\ Raise("IndexError")
    /\ UNCHANGED <<ram, output>>

prn ==
    /\ Fetched(PRN)
    /\ IF RegOK(operand_a)
       THEN /\ output' = Append(output, Str(Printed(operand_a)))
            /\ int_registers' = IntRegs(pc + 2, fl)
            /\ Continue
       ELSE /\ output' = output
            /\ int_registers' = IntRegs(pc, fl)
            /\ Raise("IndexError")
    /\ UNCHANGED <<registers, ram>>

(* self.sp -= 1 is done before anything that can raise. *)
push ==
    /\ Fetched(PUSH)
    /\ LET regs1 == [registers EXCEPT ![7] = sp_dec(registers[7])]
       IN  /\ registers' = regs1
           /\ IF RegOK(operand_a) /\ RamOK(regs1[7])
              THEN /\ ram' = ram_write(regs1[RegIdx(operand_a)], regs1[7])
                   /\ int_registers' = IntRegs(pc + 2, fl)
                   /\ Continue
              ELSE /\ ram' = ram
                   /\ int_registers' = IntRegs(pc, fl)
                   /\ Raise("IndexError")
    /\ UNCHANGED output

pop ==
    /\ Fetched(POP)
    /\ IF RamOK(sp) /\ RegOK(operand_a)
       THEN /\ LET regs1 == [registers EXCEPT ![RegIdx(operand_a)] = ram_read(sp)]
               IN  registers' = [regs1 EXCEPT ![7] = sp_inc(regs1[7])]
            /\ int_registers' = IntRegs(pc + 2, fl)
            /\ Continue
       ELSE /\ registers' = registers
            /\ int_registers' = IntRegs(pc, fl)
            /\ Raise("IndexError")
    /\ UNCHANGED <<ram, output>>

(* The return address is stored before self.registers[op_a] is read. *)
call ==
    /\ Fetched(CALL)
    /\ LET regs1 == [registers EXCEPT ![7] = sp_dec(registers[7])]
       IN  /\ registers' = regs1
           /\ IF RamOK(regs1[7])
              THEN /\ ram' = ram_write(ReturnAddress, regs1[7])
                   /\ IF RegOK(operand_a)
                      THEN /\ int_registers' = IntRegs(regs1[RegIdx(operand_a)], fl)
                           /\ Continue
                      ELSE /\ int_registers' = IntRegs(pc, fl)
                           /\ Raise("IndexError")
              ELSE /\ ram' = ram
                   /\ int_registers' = IntRegs(pc, fl)
                   /\ Raise("IndexError")
    /\ UNCHANGED output

(* A return that pops the return address through register 0. *)
RetViaPop ==
    /\ Fetched(RET)
    /\ IF RamOK(sp)
       THEN /\ int_registers' = IntRegs(ram_read(sp), fl)
            /\ registers' = [registers EXCEPT ![0] = ram_read(sp),
                                               ![7] = sp_inc(registers[7])]
            /\ Continue
       ELSE /\ int_registers' = IntRegs(pc, fl)
            /\ registers' = registers
            /\ Raise("IndexError")
    /\ UNCHANGED <<ram, output>>

ret ==
    /\ Fetched(RET)
    /\ IF RamOK(sp)
       THEN /\ int_registers' = IntRegs(ram_read(sp), fl)
            /\ registers' = [registers EXCEPT ![7] = sp_inc(registers[7])]
            /\ Continue
       ELSE /\ int_registers' = IntRegs(pc, fl)
            /\ registers' = registers
            /\ Raise("IndexError")
    /\ UNCHANGED <<ram, output>>

(* A jump that goes on to the next instruction. *)
JumpFallThrough ==
    /\ int_registers' = IntRegs(pc + 2, fl)
    /\ Continue

(* The body shared by jmp and the taken branches of jeq and jne. *)
JumpTo ==
    IF RegOK(operand_a)
    THEN /\ int_registers' = IntRegs(registers[RegIdx(operand_a)], fl)
         /\ Continue
    ELSE /\ int_registers' = IntRegs(pc, fl)
         /\ Raise("IndexError")

jmp ==
    /\ Fetched(JMP)
    /\ JumpTo
    /\ UNCHANGED <<registers, ram, output>>

jeq ==
    /\ Fetched(JEQ)
    /\ IF JeqTaken
       THEN JumpTo
       ELSE /\ int_registers' = IntRegs(pc + 2, fl)
            /\ Continue
    /\ UNCHANGED <<registers, ram, output>>

jne ==
    /\ Fetched(JNE)
    /\ IF JneTaken
       THEN JumpTo
       ELSE /\ int_registers' = IntRegs(pc + 2, fl)
            /\ Continue
    /\ UNCHANGED <<registers, ram, output>>

(* ADD taking the branch of MUL. *)
AluAddAsMul(x, y) == x * y

(* The value ADD and MUL store: Python integers, no reduction. *)
AluAdd(x, y) == x + y
AluMul(x, y) == x * y

(* A comparison with the two orderings exchanged. *)
AluCmpSwapped(x, y) == IF x = y THEN EQUAL
                       ELSE IF x < y THEN GREATERTHAN
                       ELSE LESSTHAN

(* The flag bit b set in f on top of the bits f has. *)
OrBit(f, b) == IF (f \div b) % 2 = 1 THEN f ELSE f + b

(* A comparison that merges its flag into FL (self.fl |= flag). *)
AluCmpMerged(x, y) == IF x = y THEN OrBit(fl, EQUAL)
                      ELSE IF x < y THEN OrBit(fl, LESSTHAN)
                      ELSE OrBit(fl, GREATERTHAN)

(* The flag CMP stores. *)
AluCmp(x, y) == IF x = y THEN EQUAL
                ELSE IF x < y THEN LESSTHAN
                ELSE GREATERTHAN

alu ==
    /\ \E op \in {ADD, MUL, CMP} : Fetched(op)
    /\ IF RegOK(operand_a) /\ RegOK(operand_b)
       THEN LET x == registers[RegIdx(operand_a)]
                y == registers[RegIdx(operand_b)]
            IN  /\ registers' =
                     IF opcode = ADD
                     THEN [registers EXCEPT ![RegIdx(operand_a)] = AluAdd(x, y)]
                     ELSE IF opcode = MUL
                     THEN [registers EXCEPT ![RegIdx(operand_a)] = AluMul(x, y)]
                     ELSE registers
                /\ int_registers' =
                     IntRegs(pc + 3, IF opcode = CMP THEN AluCmp(x, y) ELSE fl)
                /\ Continue
       ELSE /\ registers' = registers
            /\ int_registers' = IntRegs(pc, fl)
            /\ Raise("IndexError")
    /\ UNCHANGED <<ram, output>>

(* ---------------------------------------------------------------------- *)
(* The programs handed to load: byte sequences, as the loader supplies.   *)
(* ---------------------------------------------------------------------- *)
MaxPad == 2

Regs == 0..(NumRegisters - 1)
Values == {0, 1, 8, 70, 250, 255}
AluValues == {0, 10, 250, 255}
StackValues == {0, 7, 255}

Pad(k) == [i \in 1..k |-> NOP]

ProgLdiPrn(r, v) == <<LDI, r, v, PRN, r, HLT>>

PushPopSeq(r, v) == <<LDI, r, v, PUSH, r, LDI, r, 0, POP, r>>

ProgPushPop(r, v) == PushPopSeq(r, v) \o <<PRN, r, HLT>>

ProgPushPopAt(s, r, v) == <<LDI, 7, s>> \o PushPopSeq(r, v) \o <<HLT>>

ProgAlu(op, a, b, x, y) == <<LDI, a, x, LDI, b, y, op, a, b, PRN, a, HLT>>

ProgE2E == <<130, 0, 8, 130, 1, 9, 160, 0, 1, 71, 0, 1>>

(* x and y compared ncmp times (the second time swapped), then a jump to  *)
(* the PRN 1 at the end.                                                  *)
ProgCmpJump(x, y, jop, ncmp) ==
    <<LDI, 0, x, LDI, 1, y, LDI, 2, 14 + 3 * ncmp>>
    \o (IF ncmp >= 1 THEN <<CMP, 0, 1>> ELSE <<>>)
    \o (IF ncmp >= 2 THEN <<CMP, 1, 0>> ELSE <<>>)
    \o <<jop, 2, PRN, 0, HLT, PRN, 1, HLT>>

CallBodies == { <<>>, <<LDI, 0, 9>>, <<PUSH, 0, POP, 2>>, <<PUSH, 0>>,
                <<POP, 2, PUSH, 0>>, <<ADD, 3, 0, NOP>>, <<LDI, 7, 200>> }

(* A subroutine at k + 11, called through register r and ending in RET. *)
ProgCall(k, r, v, body) ==
    Pad(k) \o <<LDI, r, k + 11, LDI, 0, v, CALL, r, PRN, 0, HLT>>
    \o body \o <<RET>>

StackOps == { <<PUSH, 0>>, <<POP, 0>>, <<PUSH, 7>>, <<POP, 7>>, <<CALL, 0>>, <<RET>> }

ProgStackEdge(s, i1, i2) == <<LDI, 7, s>> \o i1 \o i2 \o <<HLT>>

ProgStack3(v1, v2, v3) ==
    <<LDI, 0, v1, LDI, 1, v2, LDI, 2, v3, PUSH, 0, PUSH, 1, PUSH, 2,
      POP, 3, PRN, 3, POP, 3, PRN, 3, POP, 3, PRN, 3, HLT>>

ProgStackN(n, v1, v2, v3) ==
    <<LDI, 0, v1, LDI, 1, v2, LDI, 2, v3>>
    \o SubSeq(<<PUSH, 0, PUSH, 1, PUSH, 2>>, 1, 2 * n)
    \o SubSeq(<<POP, 3, POP, 4, POP, 5>>, 1, 2 * n)
    \o <<HLT>>

BadOpcodes == {2, 3, 16, 131, 168, 255}

ProgBadOp(k, opc) == Pad(k) \o <<LDI, 0, 5, opc, HLT>>

BadRegs == {8, 9, 255}

ProgBadReg(op, a, b) == <<LDI, 0, 5, op, a, b, HLT>>

ProgJumpTop(t) == <<LDI, 0, t, JMP, 0>>

(* A program of h + 1 bytes that jumps to its last byte, the opcode opc. *)
ProgOpAt(h, opc) ==
    [i \in 1..(h + 1) |-> IF i = 1 THEN LDI
                          ELSE IF i = 3 THEN h
                          ELSE IF i = 4 THEN JMP
                          ELSE IF i = h + 1 THEN opc
                          ELSE NOP]

ProgTooLong == [i \in 1..(RamSize + 1) |-> IF i = 1 THEN HLT ELSE 7]

ProgLoop == <<LDI, 0, 3, JMP, 0>>

(* SP taken below zero by a PUSH at SP = 0, scaled, and jumped to. *)
ProgNegPc == <<LDI, 7, 0, PUSH, 0, LDI, 0, 255, MUL, 7, 0, ADD, 7, 7, JMP, 7>>

Programs ==
    { ProgLdiPrn(r, v) : r \in Regs, v \in Values }
    \cup { ProgPushPop(r, v) : r \in Regs, v \in Values }
    \cup { ProgPushPopAt(s, r, v) : s \in {0, 1, 100, 255}, r \in 0..6, v \in {8, 255} }
    \cup { ProgAlu(op, a, b, x, y) : op \in {ADD, MUL, CMP}, a \in Regs, b \in Regs,
                                     x \in AluValues, y \in AluValues }
    \cup { ProgE2E }
    \cup { ProgCmpJump(x, y, jop, ncmp) : x \in {0, 8, 255}, y \in {0, 8, 255},
                                          jop \in {JMP, JEQ, JNE}, ncmp \in 0..2 }
    \cup { ProgCall(k, r, v, body) : k \in 0..MaxPad, r \in {1, 2, 7}, v \in {8, 250},
                                     body \in CallBodies }
    \cup { ProgStackEdge(s, i1, i2) : s \in {0, 1, 255}, i1 \in StackOps, i2 \in StackOps }
    \cup { ProgStack3(v1, v2, v3) : v1 \in StackValues, v2 \in StackValues,
                                    v3 \in StackValues }
    \cup { ProgStackN(n, v1, 7, v3) : n \in 1..3, v1 \in StackValues, v3 \in StackValues }
    \cup { ProgBadOp(k, opc) : k \in 0..MaxPad, opc \in BadOpcodes }
    \cup { ProgBadReg(op, a, b) : op \in dispatch \ {NOP, RET}, a \in BadRegs \cup {0},
                                  b \in BadRegs \cup {0} }
    \cup { ProgJumpTop(t) : t \in {253, 254, 255} }
    \cup { ProgOpAt(h, opc) : h \in {253, 254, 255}, opc \in {HLT, RET, 2} }
    \cup { ProgTooLong, ProgLoop, ProgNegPc }

(* One iteration of the loop of run(). *)
Step ==
    \/ FetchError
    \/ hlt
    \/ DecodeError
    \/ nop
    \/ ldi
    \/ prn
    \/ push
    \/ pop
    \/ call
    \/ ret
    \/ jmp
    \/ jeq
    \/ jne
    \/ alu

Next ==
    \/ \E program \in Programs : load(program)
    \/ Step

Spec == Init /\ [][Next]_vars

(* run() is a loop of one thread: while the machine is running, the next  *)
(* iteration is taken.                                                    *)
FairSpec == Spec /\ WF_vars(Step)

(* ---------------------------------------------------------------------- *)
(* Properties.                                                            *)
(* ---------------------------------------------------------------------- *)
Last(h) == h[Len(h)]

(* The step about to be taken fetches its three bytes and dispatches op. *)
Executes(op) == status = "running" /\ FetchOK /\ opcode = op

Byte(v) == v \in 0..255

(* C1: after ADD a b (MUL a b) on registers a, b in 0..7 holding values    *)
(* in 0..255, registers[a] is the sum (the product) of the two old values  *)
(* modulo 256.                                                            *)
C1_AddMulWrap ==
    [][ /\ (Executes(ADD) \/ Executes(MUL))
        /\ operand_a \in Regs /\ operand_b \in Regs
        /\ Byte(registers[operand_a]) /\ Byte(registers[operand_b])
        => /\ status' = "running"
           /\ opcode = ADD =>
                registers'[operand_a] =
                    (registers[operand_a] + registers[operand_b]) % 256
           /\ opcode = MUL =>
                registers'[operand_a] =
                    (registers[operand_a] * registers[operand_b]) % 256
      ]_vars

(* C2: CMP a b on registers a, b in 0..7 leaves in FL exactly one of       *)
(* EQUAL, LESSTHAN, GREATERTHAN, chosen by the order of the two values     *)
(* alone, and changes no general register and no memory cell.             *)
C2_CmpFlags ==
    [][ Executes(CMP) /\ operand_a \in Regs /\ operand_b \in Regs
        => LET x == registers[operand_a]
               y == registers[operand_b]
           IN  /\ status' = "running"
               /\ fl' \in {EQUAL, LESSTHAN, GREATERTHAN}
               /\ (fl' = EQUAL) <=> (x = y)
               /\ (fl' = LESSTHAN) <=> (x < y)
               /\ (fl' = GREATERTHAN) <=> (x > y)
               /\ registers' = registers
               /\ ram' = ram
      ]_vars

(* A CMP has replaced a flag left by an earlier CMP by a different one. *)
C2_Witness ==
    /\ status = "running"
    /\ hist # <<>>
    /\ Last(hist).op = CMP
    /\ Last(hist).fl = LESSTHAN
    /\ fl = GREATERTHAN

(* The state right after the four instructions LDI r v; PUSH r; LDI r 0;   *)
(* POP r, r in rs, have been executed one after the other.                *)
AfterPushPop(rs) ==
    /\ status = "running"
    /\ Len(hist) >= 4
    /\ LET n == Len(hist)
       IN  /\ hist[n - 3].op = LDI /\ hist[n - 3].a \in rs /\ Byte(hist[n - 3].b)
           /\ hist[n - 2].op = PUSH /\ hist[n - 2].a = hist[n - 3].a
           /\ hist[n - 1].op = LDI /\ hist[n - 1].a = hist[n - 3].a
           /\ hist[n - 1].b = 0
           /\ hist[n].op = POP /\ hist[n].a = hist[n - 3].a

PushPopRoundTrip(rs) ==
    AfterPushPop(rs) =>
        LET e == hist[Len(hist) - 3]
        IN  registers[e.a] = e.b /\ sp = e.regs[7]

(* C3 as stated: LDI r v; PUSH r; LDI r 0; POP r ends with registers[r]    *)
(* = v and SP back at its value before the sequence, for every r in 0..7. *)
C3_PushPopAllRegs == PushPopRoundTrip(0..7)

(* C3 as amended: the same for every r in 0..6, register 7 being SP.      *)
C3_PushPopRoundTrip == PushPopRoundTrip(0..6)

C3_Witness ==
    /\ AfterPushPop(0..6)
    /\ hist[Len(hist) - 3].b = 255
    /\ hist[Len(hist) - 3].regs[7] = SPInit

(* The state right after a successful CALL has what the claim gives it:    *)
(* the return address P + 2 in the cell below the old SP, SP one less, and *)
(* PC the value X register r held when the CALL was fetched, for r in rs.  *)
CallEffect(rs) ==
    (status = "running" /\ hist # <<>> /\ Last(hist).op = CALL
        /\ Last(hist).a \in Regs)
    => LET e == Last(hist)
       IN  /\ ram[RamIdx(e.regs[7] - 1)] = e.pc + 2
           /\ sp = e.regs[7] - 1
           /\ e.a \in rs => pc = e.regs[e.a]

(* Entry e writes general register r, r in 0..6. *)
WritesReg(e, r) == e.op \in {LDI, POP, ADD, MUL} /\ RegIdx(e.a) = r

(* Entry e stores into the memory cell c. *)
WritesCell(e, c) == e.op \in {PUSH, CALL} /\ RamIdx(e.regs[7] - 1) = c

(* hist[i] is a CALL, the instruction just executed is a RET reached with  *)
(* SP where the CALL left it, and nothing in between stored into the cell  *)
(* holding the return address.                                            *)
Returned(i) ==
    /\ status = "running"
    /\ i \in 1..(Len(hist) - 1)
    /\ hist[i].op = CALL
    /\ Last(hist).op = RET
    /\ Last(hist).regs[7] = hist[i].regs[7] - 1
    /\ \A k \in (i + 1)..(Len(hist) - 1) :
          ~WritesCell(hist[k], RamIdx(hist[i].regs[7] - 1))

CallRetRoundTrip ==
    \A i \in 1..HistLen :
        Returned(i) =>
            /\ pc = hist[i].pc + 2
            /\ sp = hist[i].regs[7]
            /\ \A r \in 0..6 :
                  (\A k \in (i + 1)..(Len(hist) - 1) : ~WritesReg(hist[k], r))
                  => registers[r] = hist[i].regs[r]

(* C4 as stated: CALL r stores P + 2 below SP, decrements SP and sets PC   *)
(* to X = registers[r], for every r in 0..7; a balanced RET that finds the *)
(* return address untouched resumes at P + 2 with SP and the registers     *)
(* the callee did not write as they were at the CALL.                     *)
C4_CallRetAllRegs == CallEffect(0..7) /\ CallRetRoundTrip

(* C4 as amended: PC becomes X for r in 0..6; CALL 7 reads register 7      *)
(* after the decrement and sets PC to X - 1.  The rest as stated.         *)
C4_CallRet ==
    /\ CallEffect(0..6)
    /\ CallRetRoundTrip
    /\ (status = "running" /\ hist # <<>> /\ Last(hist).op = CALL
           /\ Last(hist).a = 7)
       => pc = Last(hist).regs[7] - 1

(* A subroutine that wrote a register and used the stack has returned. *)
C4_Witness ==
    \E i \in 1..HistLen :
        /\ Returned(i)
        /\ Len(hist) - i >= 3
        /\ \E k \in (i + 1)..(Len(hist) - 1) : hist[k].op = PUSH
        /\ \E r \in 0..6 : registers[r] # hist[i].regs[r]

(* C5: with a register operand r in 0..7, JMP sets PC to registers[r];     *)
(* JEQ does so when FL = EQUAL and otherwise adds 2 to PC; JNE does so     *)
(* when FL # EQUAL (FL = 0 included) and otherwise adds 2 to PC.  None     *)
(* changes FL, a general register or memory.                              *)
C5_Jumps ==
    [][ (Executes(JMP) \/ Executes(JEQ) \/ Executes(JNE)) /\ operand_a \in Regs
        => LET taken == \/ opcode = JMP
                        \/ opcode = JEQ /\ fl = EQUAL
                        \/ opcode = JNE /\ fl # EQUAL
           IN  /\ status' = "running"
               /\ taken => pc' = registers[operand_a]
               /\ ~taken => pc' = pc + 2
               /\ fl' = fl
               /\ registers' = registers
               /\ ram' = ram
      ]_vars

(* A JNE executed before any CMP has jumped. *)
C5_Witness ==
    /\ status = "running"
    /\ hist # <<>>
    /\ Last(hist).op = JNE
    /\ Last(hist).fl = 0
    /\ pc = Last(hist).regs[Last(hist).a]
    /\ pc # Last(hist).pc + 2

DigitValue(c) == CASE c = "0" -> 0 [] c = "1" -> 1 [] c = "2" -> 2 [] c = "3" -> 3
                   [] c = "4" -> 4 [] c = "5" -> 5 [] c = "6" -> 6 [] c = "7" -> 7
                   [] c = "8" -> 8 [] c = "9" -> 9

(* line is the decimal numeral of a natural number, without leading zeros. *)
IsNumeral(line) ==
    /\ Len(line) >= 1
    /\ \A i \in 1..Len(line) :
          line[i] \in {"0", "1", "2", "3", "4", "5", "6", "7", "8", "9"}
    /\ Len(line) > 1 => line[1] # "0"

RECURSIVE NumeralValue(_)
NumeralValue(line) ==
    IF line = <<>> THEN 0
    ELSE 10 * NumeralValue(SubSeq(line, 1, Len(line) - 1)) + DigitValue(Last(line))

(* C6: PRN r, r in 0..7, adds one item to the output and changes nothing   *)
(* but PC, which it advances by 2 (and IR, set by the fetch); right after  *)
(* LDI r v, v in 0..255, the item is the decimal numeral of v.            *)
C6_LdiPrn ==
    [][ Executes(PRN) /\ operand_a \in Regs
        => /\ status' = "running"
           /\ Len(output') = Len(output) + 1
           /\ SubSeq(output', 1, Len(output)) = output
           /\ registers' = registers
           /\ fl' = fl
           /\ ram' = ram
           /\ pc' = pc + 2
           /\ (hist # <<>> /\ Last(hist).op = LDI /\ Last(hist).a = operand_a
                  /\ Byte(Last(hist).b))
              => /\ IsNumeral(Last(output'))
                 /\ NumeralValue(Last(output')) = Last(hist).b
      ]_vars

(* LDI r 250; PRN r has printed 250. *)
C6_Witness ==
    /\ status = "running"
    /\ Len(hist) >= 2
    /\ Last(hist).op = PRN
    /\ hist[Len(hist) - 1].op = LDI
    /\ hist[Len(hist) - 1].a = Last(hist).a
    /\ hist[Len(hist) - 1].b = 250
    /\ output # <<>>
    /\ Last(output) = <<"2", "5", "0">>

(* ram holds the program of the end-to-end scenario and zeros after it. *)
E2ERam ==
    \A i \in 0..(RamSize - 1) :
        ram[i] = IF i < 12
                 THEN <<130, 0, 8, 130, 1, 9, 160, 0, 1, 71, 0, 1>>[i + 1]
                 ELSE 0

E2EHalted ==
    /\ E2ERam
    /\ status = "halted"
    /\ output = << <<"1", "7">> >>
    /\ pc = 11
    /\ sp = 244

(* C7: the run of LDI R0 8; LDI R1 9; ADD R0 R1; PRN R0; HLT from the      *)
(* initial state reaches HALTED with the output exactly the one line 17,   *)
(* PC = 11 and SP = 0xF4, and prints nothing else on the way.             *)
C7_EndToEnd ==
    /\ (E2ERam /\ status = "running" /\ hist = <<>>) ~> E2EHalted
    /\ [](E2ERam => output \in { <<>>, << <<"1", "7">> >> })

C7_Witness == E2EHalted /\ Len(hist) = 5

(* The registers after the instruction of hist[j]. *)
After(j) == IF j < Len(hist) THEN hist[j + 1].regs ELSE registers

(* The last 2n instructions were n PUSH and then n POP, all of them on     *)
(* registers 0..6.                                                        *)
PushesThenPops(n) ==
    /\ status = "running"
    /\ Len(hist) >= 2 * n
    /\ \A k \in 1..n :
          /\ hist[Len(hist) - 2 * n + k].op = PUSH
          /\ hist[Len(hist) - 2 * n + k].a \in 0..6
          /\ hist[Len(hist) - n + k].op = POP
          /\ hist[Len(hist) - n + k].a \in 0..6

(* The value the k-th of n pushes stored, and the one the k-th pop read. *)
PushedValue(n, k) ==
    LET e == hist[Len(hist) - 2 * n + k] IN e.regs[e.a]

PoppedValue(n, k) ==
    After(Len(hist) - n + k)[hist[Len(hist) - n + k].a]

(* The last nine instructions were three PUSH of byte values and then      *)
(* three times POP r; PRN r, on registers 0..6.                           *)
PushedAndPrinted3 ==
    /\ status = "running"
    /\ Len(hist) >= 9
    /\ LET base == Len(hist) - 9
       IN  /\ \A k \in 1..3 : /\ hist[base + k].op = PUSH
                              /\ hist[base + k].a \in 0..6
                              /\ Byte(hist[base + k].regs[hist[base + k].a])
           /\ \A k \in 1..3 : /\ hist[base + 2 + 2 * k].op = POP
                              /\ hist[base + 2 + 2 * k].a \in 0..6
                              /\ hist[base + 3 + 2 * k].op = PRN
                              /\ hist[base + 3 + 2 * k].a = hist[base + 2 + 2 * k].a

(* C8: n pushes followed by n pops (registers 0..6) pop the pushed values  *)
(* in reverse order and leave SP where it was; three pushes followed by    *)
(* three times POP r; PRN r print v3, v2, v1 in that order and leave SP    *)
(* where it was (0xF4 from the initial state).                            *)
C8_StackLifo ==
    /\ \A n \in 1..(HistLen \div 2) :
          PushesThenPops(n) =>
              /\ \A k \in 1..n : PoppedValue(n, k) = PushedValue(n, n + 1 - k)
              /\ sp = hist[Len(hist) - 2 * n + 1].regs[7]
    /\ PushedAndPrinted3 =>
          LET base == Len(hist) - 9
          IN  /\ Len(output) >= 3
              /\ \A k \in 1..3 :
                    LET line == output[Len(output) - 3 + k]
                        e == hist[base + 4 - k]
                    IN  IsNumeral(line) /\ NumeralValue(line) = e.regs[e.a]
              /\ sp = hist[base + 1].regs[7]

(* 0, 7 and 255 were pushed from SP = 0xF4 and 255, 7, 0 printed. *)
C8_Witness ==
    /\ PushedAndPrinted3
    /\ hist[Len(hist) - 8].regs[7] = SPInit
    /\ output = << <<"2", "5", "5">>, <<"7">>, <<"0">> >>
    /\ sp = SPInit

Outside(i) == i < 0 \/ i > 255

(* The step about to be taken accesses memory at an address outside        *)
(* 0..255: in the fetch, or at SP in the handler of a stack instruction.   *)
AccessesOutside ==
    /\ status = "running"
    /\ \/ Outside(pc) \/ Outside(pc + 1) \/ Outside(pc + 2)
       \/ FetchOK /\ opcode \in {PUSH, CALL} /\ Outside(sp - 1)
       \/ FetchOK /\ opcode \in {POP, RET} /\ Outside(sp)

(* C9: a step that accesses memory at an address outside 0..255 ends the   *)
(* run in an error state and stores into no memory cell.                  *)
C9_BoundsViolation ==
    [][ AccessesOutside => status' = "error" /\ ram' = ram ]_vars

(* HLT and the thirteen opcodes of the dispatch map. *)
KnownOpcodes == {1, 0, 130, 71, 162, 160, 167, 69, 70, 80, 17, 84, 85, 86}

(* C10: fetching an opcode that is neither HLT nor in the dispatch map     *)
(* ends the run in an error state (the KeyError of the dispatch lookup     *)
(* once the fetch has read its three bytes), with PC still the address of  *)
(* the opcode, IR the opcode, and general registers, FL and memory         *)
(* unchanged.                                                             *)
C10_DecodeError ==
    [][ status = "running" /\ RamOK(pc) /\ opcode \notin KnownOpcodes
        => /\ status' = "error"
           /\ FetchOK => err' = "KeyError"
           /\ pc' = pc
           /\ ir' = opcode
           /\ registers' = registers
           /\ fl' = fl
           /\ ram' = ram
      ]_vars

(* The run has ended on an unknown opcode that was not the first byte. *)
C10_Witness ==
    /\ status = "error"
    /\ err = "KeyError"
    /\ pc > 0
    /\ RamOK(pc)
    /\ ir = ram_read(pc)
    /\ ir \notin KnownOpcodes

(* A step that reads HLT as its opcode, the operand reads done (done) or   *)
(* not, halts: PC stays, IR is HLT, general registers, FL and memory stay. *)
HaltsOnHlt(done) ==
    status = "running" /\ RamOK(pc) /\ opcode = 1 /\ (done => FetchOK)
    => /\ status' = "halted"
       /\ pc' = pc
       /\ ir' = 1
       /\ registers' = registers
       /\ fl' = fl
       /\ ram' = ram

(* No step leaves HALTED, and HALTED is entered only by a step that has    *)
(* fetched HLT.                                                           *)
HaltedAbsorbing == status # "halted"

HaltedOnlyByHlt ==
    status' = "halted" => status = "running" /\ FetchOK /\ opcode = 1

(* C11 as stated: whenever the opcode read at PC is HLT the machine halts  *)
(* with PC, general registers, FL and memory unchanged and IR = 0x01;      *)
(* HALTED is absorbing and is reached only by fetching HLT.               *)
C11_HaltAnyPc ==
    [][HaltsOnHlt(FALSE) /\ HaltedAbsorbing /\ HaltedOnlyByHlt]_vars

(* C11 as amended: the same whenever the fetch has read all three bytes    *)
(* at PC, PC + 1 and PC + 2 and the opcode is HLT.                        *)
C11_Halt == [][HaltsOnHlt(TRUE) /\ HaltedAbsorbing /\ HaltedOnlyByHlt]_vars

(* The machine has halted on a HLT that was not the first byte, after      *)
(* instructions that changed registers.                                   *)
C11_Witness ==
    /\ status = "halted"
    /\ pc > 0
    /\ ir = 1
    /\ ram_read(pc) = 1
    /\ Last(hist).op = 1
    /\ Last(hist).regs = registers
    /\ registers[0] # 0

(* C12: in every state of a run (all the programs loaded hold bytes only)  *)
(* each of the 8 general registers, SP included, and every memory cell     *)
(* holds a value in 0..255.                                               *)
C12_ByteValues ==
    /\ \A r \in 0..7 : Byte(registers[r])
    /\ \A i \in 0..255 : Byte(ram[i])

(* C13: FL is one of 0, EQUAL, LESSTHAN, GREATERTHAN in every state; a     *)
(* step that is not a CMP (the halt and the failing steps included) leaves *)
(* FL as it is, and a CMP on registers 0..7 leaves it non-zero, so that FL *)
(* is 0 exactly until the first CMP has been executed.                    *)
C13_FlagsOnlyByCmp ==
    /\ [](fl \in {0, 1, 2, 4})
    /\ [][ /\ ~(status = "running" /\ FetchOK /\ opcode = 167) => fl' = fl
           /\ (status = "running" /\ FetchOK /\ opcode = 167
                  /\ operand_a \in 0..7 /\ operand_b \in 0..7) => fl' # 0
           /\ fl # 0 => fl' # 0
         ]_vars

(* A second CMP has replaced LESSTHAN by EQUAL, and instructions that are  *)
(* not CMP have run since with FL kept.                                   *)
C13_Witness ==
    /\ status = "halted"
    /\ fl = 2
    /\ Len(hist) >= 4
    /\ hist[Len(hist) - 3].op = 167
    /\ hist[Len(hist) - 3].fl = 4
    /\ \A k \in (Len(hist) - 2)..Len(hist) : hist[k].op # 167 /\ hist[k].fl = 2

(* C14: a step that ends in a fatal error leaves the general registers     *)
(* (SP included), FL, PC and every memory cell as they were before the     *)
(* instruction was fetched.                                               *)
C14_NoPartialExecution ==
    [][ status = "running" /\ status' = "error"
        => /\ registers' = registers
           /\ fl' = fl
           /\ pc' = pc
           /\ ram' = ram
      ]_vars

(* C15: a step taken with PC = 254 or PC = 255 ends in the error of an     *)
(* out-of-range read whatever the opcode at PC (HLT does not halt); a step *)
(* taken with PC <= 253 does not fail in the fetch, that is, it does not   *)
(* end in an error without an instruction having been dispatched.         *)
C15_FetchThreeBytes ==
    [][ /\ (status = "running" /\ pc \in {254, 255})
           => status' = "error" /\ err' = "IndexError" /\ hist' = hist
        /\ (status = "running" /\ pc <= 253)
           => ~(status' = "error" /\ hist' = hist)
      ]_vars

(* The step about to be taken uses an operand outside 0..7 as a register   *)
(* index.                                                                 *)
BadRegisterOperand ==
    /\ status = "running"
    /\ FetchOK
    /\ \/ opcode \in {130, 71, 69, 70, 80, 84, 160, 162, 167}
          /\ operand_a \notin 0..7
       \/ opcode \in {160, 162, 167} /\ operand_b \notin 0..7
       \/ opcode = 85 /\ fl = 1 /\ operand_a \notin 0..7
       \/ opcode = 86 /\ fl # 1 /\ operand_a \notin 0..7

(* C16: a step that uses an operand outside 0..7 as a register index ends  *)
(* in the error state and writes none of the 8 general registers.         *)
C16_RegisterIndexChecked ==
    [][ BadRegisterOperand => status' = "error" /\ registers' = registers ]_vars

(* C17: RET keeps general registers 0..6, FL and memory, and when it       *)
(* succeeds sets PC to memory[SP] and adds 1 to SP; CALL keeps general     *)
(* registers 0..6, FL and every memory cell but the one below SP, and      *)
(* when it succeeds stores PC + 2 there and takes 1 from SP.              *)
C17_CallRetFrame ==
    [][ /\ Executes(17)
           => /\ \A r \in 0..6 : registers'[r] = registers[r]
              /\ fl' = fl
              /\ ram' = ram
              /\ status' = "running"
                 => pc' = ram[RamIdx(sp)] /\ sp' = sp + 1
        /\ Executes(80)
           => /\ \A r \in 0..6 : registers'[r] = registers[r]
              /\ fl' = fl
              /\ \A c \in 0..255 : c # RamIdx(sp - 1) => ram'[c] = ram[c]
              /\ status' = "running"
                 => /\ sp' = sp - 1
                    /\ ram'[RamIdx(sp - 1)] = pc + 2
                    /\ operand_a \in 0..6 => pc' = registers[operand_a]
      ]_vars

(* A RET has returned with registers 0 and 1 holding values loaded before. *)
C17_Witness ==
    /\ status = "running"
    /\ hist # <<>>
    /\ Last(hist).op = 17
    /\ registers[0] # 0
    /\ \E r \in 1..6 : registers[r] # 0
    /\ sp = Last(hist).regs[7] + 1

(* C18: a step that executes its instruction without error advances PC by *)
(* 1 for NOP (changing nothing else but IR), by 2 for PRN, PUSH and POP,   *)
(* by 3 for LDI, ADD, MUL and CMP, and leaves in IR the opcode that was at *)
(* the PC it started from.                                                *)
C18_PcAdvance ==
    [][ (status = "running" /\ FetchOK /\ status' = "running")
        => /\ ir' = ram[RamIdx(pc)]
           /\ opcode = 0 => /\ pc' = pc + 1
                            /\ registers' = registers
                            /\ fl' = fl
                            /\ ram' = ram
                            /\ output' = output
           /\ opcode \in {71, 69, 70} => pc' = pc + 2
           /\ opcode \in {130, 160, 162, 167} => pc' = pc + 3
      ]_vars

(* A NOP that follows an ADD has been executed. *)
C18_Witness ==
    /\ status = "running"
    /\ Len(hist) >= 2
    /\ Last(hist).op = 0
    /\ hist[Len(hist) - 1].op = 160
    /\ ir = 0
    /\ pc = Last(hist).pc + 1

(* ram holds LDI R0 3; JMP R0 at address 0 and zeros after it. *)
LoopRam ==
    \A i \in 0..255 :
        ram[i] = IF i < 5 THEN <<130, 0, 3, 84, 0>>[i + 1] ELSE 0

(* C19: the run of LDI R0 3; JMP R0 is RUNNING in every state, never       *)
(* HALTED and never in error, and always has a next iteration to take;     *)
(* any run that is HALTED has fetched HLT as its last instruction.        *)
C19_NoTermination ==
    /\ LoopRam => status = "running" /\ ENABLED Step
    /\ status = "halted" => hist # <<>> /\ Last(hist).op = 1

(* The JMP at address 3 has jumped to itself several times. *)
C19_Witness ==
    /\ LoopRam
    /\ pc = 3
    /\ Len(hist) >= 5
    /\ \A k \in 2..Len(hist) : hist[k].op = 84 /\ hist[k].pc = 3

(* The step has loaded program into the machine as constructed: its bytes  *)
(* from address 0 on, zeros after them, PC = 0, FL = 0, registers 0..6     *)
(* zero and SP = 0xF4; or, for more than 256 bytes, has ended in error     *)
(* (with the first 256 bytes stored).                                     *)
LoadedAs(program) ==
    IF Len(program) <= 256
    THEN /\ status' = "running"
         /\ \A i \in 0..255 :
               ram'[i] = IF i < Len(program) THEN program[i + 1] ELSE 0
         /\ pc' = 0
         /\ fl' = 0
         /\ \A r \in 0..6 : registers'[r] = 0
         /\ registers'[7] = 244
    ELSE /\ status' = "error"
         /\ \A i \in 0..255 : ram'[i] = program[i + 1]

(* C20: loading a program of at most 256 bytes into the machine as         *)
(* constructed stores byte i at address i, leaves the rest of memory zero  *)
(* and PC, FL and the registers at their initial values; loading more      *)
(* than 256 bytes ends in an error.                                       *)
C20_Load ==
    [][ status = "constructed"
        => \E program \in Programs : LoadedAs(program) ]_vars

(* A program of exactly 256 bytes has been loaded. *)
C20_Witness ==
    /\ status = "running"
    /\ hist = <<>>
    /\ ram[0] = 130
    /\ ram[255] = 1
    /\ pc = 0
    /\ sp = 244

====
